---- MODULE Spec2Model ----
(***************************************************************************)
(* A model of the PDF assistant: the profile store and the document        *)
(* operations of tools.py, the surfacing rule of                           *)
(* run_agent_and_display_tools and the Streamlit script of app.py.         *)
(*                                                                         *)
(* Representation of Python values.                                        *)
(*   A text (str) is a sequence of fragments whose concatenation is the    *)
(*   string.  Every text that begins with the five characters "Error" is   *)
(*   written with those five characters as its first five fragments, so    *)
(*   str.startswith("Error") is a comparison of the first five fragments.  *)
(*   A Python value is a record [ty, val]: ty is the Python type name and  *)
(*   val a sequence (the fragments of a str, the items of a dict or list). *)
(***************************************************************************)
EXTENDS Integers, Sequences, FiniteSets, TLC

VARIABLES
    file,        \* user_profile.json: [exists, readable, writable, content]
    lastCall,    \* the most recent direct call of an operation and its outcome
    written,     \* history: key -> the value most recently written, or NoValue
    pc,          \* per session: position inside update_user_profile
    local,       \* per session: the profile read at tools.py:45
    args,        \* per session: the key and value of the running update
    done,        \* per session: the keys whose update completed
    overlap,     \* history: some update read while another was between read and write
    turn,        \* the agent turn: [state, invocations, new_items, final_output, result]
    st,          \* st.session_state of app.py
    uploader,    \* the file held by st.file_uploader
    disk,        \* the temporary PDF files that exist
    uiLast       \* history: the agent runs of the last script run

vars == <<file, lastCall, written, pc, local, args, done, overlap, turn, st,
          uploader, disk, uiLast>>

profileVars == <<file, lastCall, written>>
raceVars == <<pc, local, args, done, overlap>>
loopVars == <<turn>>
uiVars == <<st, uploader, disk, uiLast>>

----------------------------------------------------------------------------
(* Texts *)

NL == "\n"

ErrorPrefix == <<"E", "r", "r", "o", "r">>

\* str.startswith
StartsWith(text, prefix) ==
    /\ Len(text) >= Len(prefix)
    /\ SubSeq(text, 1, Len(prefix)) = prefix

RECURSIVE Join(_, _)
\* sep.join(texts) for a sequence of texts
Join(sep, texts) ==
    IF texts = <<>> THEN <<>>
    ELSE IF Len(texts) = 1 THEN texts[1]
    ELSE texts[1] \o sep \o Join(sep, Tail(texts))

(* Python values *)

PyStr(t) == [ty |-> "str", val |-> t]
PyNone == [ty |-> "NoneType", val |-> <<>>]
PyDict(items) == [ty |-> "dict", val |-> items]
PyList(items) == [ty |-> "list", val |-> items]
PyInt(digits) == [ty |-> "int", val |-> <<digits>>]

Return(v) == [kind |-> "return", value |-> v, exc |-> "none"]
Raise(e) == [kind |-> "raise", value |-> PyNone, exc |-> e]

----------------------------------------------------------------------------
(* JSON text of the profile file: a sequence of tokens [k, v].            *)

Punct(c) == [k |-> "punct", v |-> c]
StrTok(s) == [k |-> "str", v |-> s]
IntTok(d) == [k |-> "int", v |-> d]
NullTok == [k |-> "null", v |-> "null"]
Ws(s) == [k |-> "ws", v |-> s]

RECURSIVE StripWs(_)
StripWs(toks) ==
    IF toks = <<>> THEN <<>>
    ELSE IF Head(toks).k = "ws" THEN StripWs(Tail(toks))
    ELSE <<Head(toks)>> \o StripWs(Tail(toks))

IsScalarTok(t) == t.k \in {"str", "int", "null"}

ScalarValue(t) ==
    CASE t.k = "str" -> PyStr(<<t.v>>)
      [] t.k = "int" -> PyInt(t.v)
      [] OTHER -> PyNone

\* dict.__setitem__ on an insertion-ordered dict, items a sequence of <<key, value>>
DictSet(items, key, value) ==
    IF \E i \in 1..Len(items) : items[i][1] = key
    THEN [i \in 1..Len(items) |->
             IF items[i][1] = key THEN <<key, value>> ELSE items[i]]
    ELSE Append(items, <<key, value>>)

DictHas(items, key) == \E i \in 1..Len(items) : items[i][1] = key

DictGet(items, key) ==
    items[CHOOSE i \in 1..Len(items) : items[i][1] = key][2]

DecodeError == [ok |-> FALSE, value |-> PyNone]
Decoded(v) == [ok |-> TRUE, value |-> v]

RECURSIVE ParseMembers(_, _, _)
\* the members of an object from token i on, after "{" or ","; acc the dict so far
ParseMembers(t, i, acc) ==
    IF i + 2 > Len(t) THEN DecodeError
    ELSE IF ~(t[i].k = "str" /\ t[i + 1] = Punct(":") /\ IsScalarTok(t[i + 2]))
    THEN DecodeError
    ELSE LET acc2 == DictSet(acc, t[i].v, ScalarValue(t[i + 2])) IN
         IF i + 3 > Len(t) THEN DecodeError
         ELSE IF t[i + 3] = Punct("}")
              THEN IF i + 3 = Len(t) THEN Decoded(PyDict(acc2)) ELSE DecodeError
         ELSE IF t[i + 3] = Punct(",") THEN ParseMembers(t, i + 4, acc2)
         ELSE DecodeError

RECURSIVE ParseElements(_, _, _)
ParseElements(t, i, acc) ==
    IF i + 1 > Len(t) THEN DecodeError
    ELSE IF ~IsScalarTok(t[i]) THEN DecodeError
    ELSE LET acc2 == Append(acc, ScalarValue(t[i])) IN
         IF t[i + 1] = Punct("]")
         THEN IF i + 1 = Len(t) THEN Decoded(PyList(acc2)) ELSE DecodeError
         ELSE IF t[i + 1] = Punct(",") THEN ParseElements(t, i + 2, acc2)
         ELSE DecodeError

\* json.loads, for flat documents: an object or a list of scalars, or a scalar
JsonLoads(content) ==
    LET t == StripWs(content) IN
    IF t = <<>> THEN DecodeError
    ELSE IF t[1] = Punct("{")
         THEN IF Len(t) = 2 /\ t[2] = Punct("}") THEN Decoded(PyDict(<<>>))
              ELSE ParseMembers(t, 2, <<>>)
    ELSE IF t[1] = Punct("[")
         THEN IF Len(t) = 2 /\ t[2] = Punct("]") THEN Decoded(PyList(<<>>))
              ELSE ParseElements(t, 2, <<>>)
    ELSE IF Len(t) = 1 /\ IsScalarTok(t[1]) THEN Decoded(ScalarValue(t[1]))
    ELSE DecodeError

ValueTok(v) ==
    CASE v.ty = "str" -> StrTok(v.val[1])
      [] v.ty = "int" -> IntTok(v.val[1])
      [] OTHER -> NullTok

RECURSIVE DumpMembers(_, _)
DumpMembers(items, i) ==
    IF i > Len(items) THEN <<Ws("\n"), Punct("}")>>
    ELSE <<Ws("\n    "), StrTok(items[i][1]), Punct(":"), Ws(" "),
           ValueTok(items[i][2])>>
         \o (IF i < Len(items) THEN <<Punct(",")>> ELSE <<>>)
         \o DumpMembers(items, i + 1)

\* json.dump(profile, f, indent=4) of a dict of scalars
JsonDump(items) ==
    IF items = <<>> THEN <<Punct("{"), Punct("}")>>
    ELSE <<Punct("{")>> \o DumpMembers(items, 1)

----------------------------------------------------------------------------
(* The profile store, tools.py:14-48 *)

Keys == {"name", "city", "lang"}
Values == {"Ana", "Lima"}
NoValue == "<none>"

FreshFile ==
    [exists |-> FALSE, readable |-> TRUE, writable |-> TRUE, content |-> <<>>]

\* _read_user_profile_logic
ReadUserProfileLogic(f) ==
    IF ~f.exists THEN Return(PyDict(<<>>))
    ELSE IF ~f.readable THEN Raise("PermissionError")
    ELSE IF f.content = <<>> THEN Return(PyDict(<<>>))
    ELSE LET r == JsonLoads(f.content) IN
         IF r.ok THEN Return(r.value) ELSE Return(PyDict(<<>>))

\* read_user_profile
ReadUserProfile(f) == ReadUserProfileLogic(f)

\* profile[key] = value on the dict read (str values as the tool's schema has them)
SetItemLosingOthers(items, key, value) == <<<<key, PyStr(<<value>>)>>>>

SetItem(items, key, value) == DictSet(items, key, PyStr(<<value>>))

\* a write of the new entry alone, without the profile that was read
WriteProfileOnlyKey(f, profile, key, value) ==
    [outcome |-> Return(PyNone),
     file |-> [exists |-> TRUE, readable |-> f.readable, writable |-> TRUE,
               content |-> JsonDump(<<<<key, PyStr(<<value>>)>>>>)]]

\* tools.py:46-48 on a profile that was read: the outcome and the file afterwards
WriteProfile(f, profile, key, value) ==
    IF profile.ty # "dict"
    THEN [outcome |-> Raise("TypeError"), file |-> f]
    ELSE IF ~f.writable
    THEN [outcome |-> Raise("PermissionError"), file |-> f]
    ELSE [outcome |-> Return(PyNone),
          file |-> [exists |-> TRUE, readable |-> f.readable,
                    writable |-> TRUE,
                    content |-> JsonDump(SetItem(profile.val, key, value))]]

\* update_user_profile
UpdateUserProfile(f, key, value) ==
    LET r == ReadUserProfileLogic(f) IN
    IF r.kind = "raise" THEN [outcome |-> r, file |-> f]
    ELSE WriteProfile(f, r.value, key, value)

----------------------------------------------------------------------------
(* The document operations, tools.py:50-139 *)

Paths == {"/tmp/doc.pdf", "/tmp/a.pdf", "/tmp/bad.pdf"}

NoPdf == [exists |-> FALSE, valid |-> FALSE, pages |-> <<>>]
NotAPdf == [exists |-> TRUE, valid |-> FALSE, pages |-> <<>>]
Pdf(pages) == [exists |-> TRUE, valid |-> TRUE, pages |-> pages]

\* the files at the paths a direct call may name
PdfAt(path) ==
    CASE path = "/tmp/a.pdf" -> Pdf(<<<<"page one">>, <<"page two">>>>)
      [] path = "/tmp/bad.pdf" -> NotAPdf
      [] OTHER -> NoPdf

RECURSIVE PagesText(_)
\* the loop of tools.py:59-60
PagesText(pages) ==
    IF pages = <<>> THEN <<>>
    ELSE pages[1] \o <<NL>> \o PagesText(Tail(pages))

ErrorText(what, cause) ==
    ErrorPrefix \o <<what, cause, NL, "Traceback (most recent call last): ...">>

\* extract_text_from_pdf on the file pdf found at path
ExtractTextFromPdf(path, pdf) ==
    IF ~pdf.exists
    THEN Return(PyStr(ErrorPrefix \o <<" extracting text from PDF at ", path, ": ",
                       "[Errno 2] No such file or directory", NL,
                       "Traceback (most recent call last): ...">>))
    ELSE IF ~pdf.valid
    THEN Return(PyStr(ErrorPrefix \o <<" extracting text from PDF at ", path, ": ",
                       "invalid pdf header", NL,
                       "Traceback (most recent call last): ...">>))
    ELSE Return(PyStr(PagesText(pdf.pages)))

\* what the chat-completion call does: content, empty content, an exception,
\* or a response without choices
Responses ==
    << [kind |-> "content", text |-> <<"This document discusses X.">>],
       [kind |-> "empty", text |-> <<>>],
       [kind |-> "exception", text |-> <<"Connection error.">>],
       [kind |-> "nochoices", text |-> <<"list index out of range">>] >>

ResponseFailed(resp) == resp.kind \in {"exception", "nochoices"}

\* summarize_document, given what the model call does.  The response is the
\* endpoint's choice whatever the prompt, and the texts here stay far below
\* MAX_INPUT_TOKENS, so the truncation of tools.py:77-81 leaves them as they are.
SummarizeDocument(document_text, resp) ==
    IF ResponseFailed(resp)
    THEN Return(PyStr(ErrorText(" summarizing document: ", resp.text[1])))
    ELSE IF resp.text = <<>> THEN Return(PyStr(<<"No summary was generated.">>))
    ELSE Return(PyStr(resp.text))

\* generate_quiz, given what the model call does
GenerateQuiz(document_text, resp) ==
    IF ResponseFailed(resp)
    THEN Return(PyStr(ErrorText(" generating quiz: ", resp.text[1])))
    ELSE IF resp.text = <<>> THEN Return(PyStr(<<"No quiz was generated.">>))
    ELSE Return(PyStr(resp.text))

----------------------------------------------------------------------------
(* Direct calls of the operations *)

NoCall ==
    [op |-> "none", key |-> NoValue, value |-> NoValue, before |-> FreshFile,
     failed |-> FALSE, outcome |-> Return(PyNone)]

\* a fault of the profile file that the handler meets
FileFault(f) == (f.exists /\ ~f.readable) \/ ~f.writable

CallRead ==
    /\ lastCall' = [op |-> "read", key |-> NoValue, value |-> NoValue,
                    before |-> file, failed |-> file.exists /\ ~file.readable,
                    outcome |-> ReadUserProfile(file)]
    /\ UNCHANGED <<file, written, raceVars, loopVars, uiVars>>

CallUpdate(key, value) ==
    LET r == UpdateUserProfile(file, key, value) IN
    /\ file' = r.file
    /\ lastCall' = [op |-> "update", key |-> key, value |-> value,
                    before |-> file, failed |-> FileFault(file),
                    outcome |-> r.outcome]
    /\ written' = IF r.outcome.kind = "return"
                  THEN [written EXCEPT ![key] = value] ELSE written
    /\ UNCHANGED <<raceVars, loopVars, uiVars>>

CallExtract(path) ==
    /\ lastCall' = [op |-> "extract", key |-> path, value |-> NoValue,
                    before |-> file, failed |-> ~PdfAt(path).valid,
                    outcome |-> ExtractTextFromPdf(path, PdfAt(path))]
    /\ UNCHANGED <<file, written, raceVars, loopVars, uiVars>>

CallSummarize(resp) ==
    /\ lastCall' = [op |-> "summarize", key |-> NoValue, value |-> NoValue,
                    before |-> file, failed |-> ResponseFailed(resp),
                    outcome |-> SummarizeDocument(<<"text">>, resp)]
    /\ UNCHANGED <<file, written, raceVars, loopVars, uiVars>>

CallQuiz(resp) ==
    /\ lastCall' = [op |-> "quiz", key |-> NoValue, value |-> NoValue,
                    before |-> file, failed |-> ResponseFailed(resp),
                    outcome |-> GenerateQuiz(<<"text">>, resp)]
    /\ UNCHANGED <<file, written, raceVars, loopVars, uiVars>>

----------------------------------------------------------------------------
(* Two sessions running update_user_profile against the same file, the    *)
(* read of tools.py:45 and the write of tools.py:46-48 as separate steps.  *)

Sessions == {1, 2}
MaxUpdates == 1

RaceIdle ==
    /\ pc = [s \in Sessions |-> "idle"]
    /\ local = [s \in Sessions |-> PyDict(<<>>)]
    /\ args = [s \in Sessions |-> <<NoValue, NoValue>>]
    /\ done = [s \in Sessions |-> <<>>]
    /\ overlap = FALSE

\* tools.py:45 in session s
UpdateRead(s, key, value) ==
    /\ pc[s] = "idle"
    /\ Len(done[s]) < MaxUpdates
    /\ LET r == ReadUserProfileLogic(file) IN
       /\ r.kind = "return"
       /\ local' = [local EXCEPT ![s] = r.value]
    /\ args' = [args EXCEPT ![s] = <<key, value>>]
    /\ pc' = [pc EXCEPT ![s] = "read"]
    /\ overlap' = (overlap \/ \E o \in Sessions \ {s} : pc[o] = "read")
    /\ UNCHANGED <<file, done, lastCall, written, loopVars, uiVars>>

\* tools.py:46-48 in session s
UpdateWrite(s) ==
    /\ pc[s] = "read"
    /\ LET r == WriteProfile(file, local[s], args[s][1], args[s][2]) IN
       /\ file' = r.file
       /\ done' = [done EXCEPT ![s] =
                      IF r.outcome.kind = "return" THEN Append(@, args[s][1]) ELSE @]
    /\ pc' = [pc EXCEPT ![s] = "idle"]
    /\ UNCHANGED <<local, args, overlap, lastCall, written, loopVars, uiVars>>

----------------------------------------------------------------------------
(* The agent turn, app.py:9-28.  Runner.run is the reasoning step: it      *)
(* dispatches zero or more operations, one after the other, then gives its *)
(* own final_output; result.new_items holds a ToolCallItem and a           *)
(* ToolCallOutputItem per invocation (output: what the handler returned)   *)
(* and a MessageOutputItem for the reply.                                  *)

MaxCalls == 2

ToolCallItem(name) == [cls |-> "ToolCallItem", name |-> name, output |-> PyNone]
ToolCallOutputItem(name, output) ==
    [cls |-> "ToolCallOutputItem", name |-> name, output |-> output]
MessageOutputItem == [cls |-> "MessageOutputItem", name |-> "", output |-> PyNone]

IsToolCallOutputItem(item) == item.cls = "ToolCallOutputItem"

FinalOutputs == << <<"Hello! How can I help you today?">>, <<"Here is the result.">> >>

\* the surfacing without its branch on tool_call_outputs
RunAgentAlwaysJoin(new_items, final_output) ==
    LET tool_call_outputs == SelectSeq(new_items, IsToolCallOutputItem) IN
    Return(PyStr(Join(<<NL>>,
        [i \in 1..Len(tool_call_outputs) |-> tool_call_outputs[i].output.val])))

\* run_agent_and_display_tools after Runner.run returned, app.py:11-28;
\* str.join raises TypeError on an item that is not a str
RunAgentAndDisplayTools(new_items, final_output) ==
    LET tool_call_outputs == SelectSeq(new_items, IsToolCallOutputItem) IN
    IF tool_call_outputs # <<>>
    THEN IF \E i \in 1..Len(tool_call_outputs) :
                tool_call_outputs[i].output.ty # "str"
         THEN Raise("TypeError")
         ELSE Return(PyStr(Join(<<NL>>,
                  [i \in 1..Len(tool_call_outputs) |->
                      tool_call_outputs[i].output.val])))
    ELSE Return(PyStr(final_output))

TurnIdle ==
    [state |-> "Idle", ran |-> FALSE, fault |-> FALSE, invocations |-> <<>>,
     new_items |-> <<>>, final_output |-> <<>>, result |-> Return(PyNone)]

LoopIdle == turn = TurnIdle

\* a user message arrives: app.py:10, Runner.run starts
StartTurn ==
    /\ turn.state = "Idle"
    /\ turn' = [TurnIdle EXCEPT !.state = "Routing"]
    /\ UNCHANGED <<profileVars, raceVars, uiVars>>

\* one dispatch inside Runner.run: the invocation and its two items
Dispatched(name, output, failed) ==
    [turn EXCEPT
        !.state = "Dispatching",
        !.invocations = Append(@, [operation_name |-> name, output |-> output,
                                   raised |-> failed]),
        !.new_items = @ \o <<ToolCallItem(name), ToolCallOutputItem(name, output)>>]

CanDispatch ==
    /\ turn.state \in {"Routing", "Dispatching"}
    /\ Len(turn.invocations) < MaxCalls

DispatchExtract(path) ==
    /\ CanDispatch
    /\ turn' = Dispatched("extract_text_from_pdf",
                          ExtractTextFromPdf(path, PdfAt(path)).value,
                          ~PdfAt(path).valid)
    /\ UNCHANGED <<profileVars, raceVars, uiVars>>

DispatchSummarize(resp) ==
    /\ CanDispatch
    /\ turn' = Dispatched("summarize_document",
                          SummarizeDocument(<<"text">>, resp).value,
                          ResponseFailed(resp))
    /\ UNCHANGED <<profileVars, raceVars, uiVars>>

DispatchQuiz(resp) ==
    /\ CanDispatch
    /\ turn' = Dispatched("generate_quiz",
                          GenerateQuiz(<<"text">>, resp).value,
                          ResponseFailed(resp))
    /\ UNCHANGED <<profileVars, raceVars, uiVars>>

DispatchReadProfile ==
    /\ CanDispatch
    /\ ReadUserProfile(file).kind = "return"
    /\ turn' = Dispatched("read_user_profile", ReadUserProfile(file).value, FALSE)
    /\ UNCHANGED <<profileVars, raceVars, uiVars>>

DispatchUpdateProfile(key, value) ==
    /\ CanDispatch
    /\ LET r == UpdateUserProfile(file, key, value) IN
       /\ r.outcome.kind = "return"
       /\ file' = r.file
       /\ turn' = Dispatched("update_user_profile", r.outcome.value, FALSE)
    /\ UNCHANGED <<lastCall, written, raceVars, uiVars>>

\* Runner.run returns with the reasoning step's reply, then app.py:11-28
FinishTurn(final_output) ==
    /\ turn.state \in {"Routing", "Dispatching"}
    /\ LET items == Append(turn.new_items, MessageOutputItem) IN
       turn' = [turn EXCEPT
                   !.state = "Idle", !.ran = TRUE,
                   !.new_items = items,
                   !.final_output = final_output,
                   !.result = RunAgentAndDisplayTools(items, final_output)]
    /\ UNCHANGED <<profileVars, raceVars, uiVars>>

\* Runner.run raises (the model endpoint fails, the run exceeds its turns)
FaultTurn ==
    /\ turn.state \in {"Routing", "Dispatching"}
    /\ turn' = [turn EXCEPT !.state = "Idle", !.ran = TRUE, !.fault = TRUE,
                            !.result = Raise("AgentsException")]
    /\ UNCHANGED <<profileVars, raceVars, uiVars>>

----------------------------------------------------------------------------
(* The Streamlit script, app.py:31-162.  Every interaction of the user     *)
(* (a chat message, a change of the uploaded file, a button) runs the      *)
(* script once from top to bottom against st.session_state; an exception   *)
(* ends the run where it is raised.                                        *)

Names == {"a.pdf", "b.pdf"}
MaxTemp == 2
MaxHistory == 2

\* what the user may upload: the uploader filters on the file extension only
Uploads == << Pdf(<< <<"alpha">> >>), Pdf(<< <<"beta">> >>), NotAPdf >>

\* the names tempfile.NamedTemporaryFile gives, by number
TempNames == <<"/tmp/tmpa.pdf", "/tmp/tmpb.pdf", "/tmp/tmpc.pdf", "/tmp/tmpd.pdf">>

ChatPrompts == << <<"Hello, how are you?">>, <<"My name is Ana">> >>

NoText == [some |-> FALSE, text |-> <<>>]
Some(t) == [some |-> TRUE, text |-> t]

NoUpload == [held |-> FALSE, name |-> "", pdf |-> NoPdf]

\* app.py:36-43, no extracted_text_<name> key yet
SessionInit ==
    [messages |-> <<>>, uploaded_file_name |-> "None",
     extracted |-> [n \in Names |-> NoText],
     summary |-> NoText, quiz |-> NoText]

\* what Runner.run does for one prompt
Run(items, final_output) ==
    [fault |-> FALSE, new_items |-> items, final_output |-> final_output]
FaultRun == [fault |-> TRUE, new_items |-> <<>>, final_output |-> <<>>]

\* asyncio.run(run_agent_and_display_tools(prompt)) for that run
AgentRun(run) ==
    IF run.fault THEN Raise("AgentsException")
    ELSE RunAgentAndDisplayTools(run.new_items, run.final_output)

Call(name, output) == <<ToolCallItem(name), ToolCallOutputItem(name, output)>>

\* the runs on the extraction prompt: the operation alone, the operation
\* after a look at the profile (agent.py:36), a fault of the run
ExtractRuns(path, pdf) ==
    << Run(Call("extract_text_from_pdf", ExtractTextFromPdf(path, pdf).value)
           \o <<MessageOutputItem>>, FinalOutputs[2]),
       Run(Call("read_user_profile", ReadUserProfile(file).value)
           \o Call("extract_text_from_pdf", ExtractTextFromPdf(path, pdf).value)
           \o <<MessageOutputItem>>, FinalOutputs[2]),
       FaultRun >>

\* what the model call does in the runs the buttons start: content, an exception
ButtonResponses == <<Responses[1], Responses[3]>>

\* the runs on the summary or quiz prompt: the operation, under each thing
\* the model call may do, or a fault of the run
ButtonRuns(button, text) ==
    [i \in 1..(Len(ButtonResponses) + 1) |->
        IF i > Len(ButtonResponses) THEN FaultRun
        ELSE IF button = "summary"
        THEN Run(Call("summarize_document",
                      SummarizeDocument(text, ButtonResponses[i]).value)
                 \o <<MessageOutputItem>>, FinalOutputs[2])
        ELSE Run(Call("generate_quiz", GenerateQuiz(text, ButtonResponses[i]).value)
                 \o <<MessageOutputItem>>, FinalOutputs[2])]

\* the runs on a chat message: a reply, a profile update, a summary, a fault
\* (the script never reads user_profile.json: the file is left as it is here)
ChatRuns ==
    << Run(<<MessageOutputItem>>, FinalOutputs[1]),
       Run(Call("update_user_profile", PyNone) \o <<MessageOutputItem>>,
           FinalOutputs[1]),
       Run(Call("summarize_document",
                SummarizeDocument(<<"text">>, Responses[1]).value)
           \o <<MessageOutputItem>>, FinalOutputs[2]),
       FaultRun >>

RunRecord(kind, prompt, outcome) ==
    [kind |-> kind, prompt |-> prompt, returned |-> outcome.kind = "return",
     text |-> outcome.value.val]

\* the sidebar handler without the append of the reply
SidebarChatNoReply(X, prompt, run) ==
    LET r == AgentRun(run) IN
    [X EXCEPT !.st.messages = Append(@, [role |-> "user", content |-> prompt]),
              !.aborted = (r.kind = "raise"),
              !.runs = Append(@, RunRecord("chat", prompt, r))]

\* the sidebar chat handler, app.py:52-62
SidebarChat(X, prompt, run) ==
    LET withUser == Append(X.st.messages, [role |-> "user", content |-> prompt])
        r == AgentRun(run)
    IN IF r.kind = "raise"
       THEN [X EXCEPT !.st.messages = withUser,
                      !.aborted = TRUE,
                      !.runs = Append(@, RunRecord("chat", prompt, r))]
       ELSE [X EXCEPT !.st.messages =
                          Append(withUser, [role |-> "assistant",
                                            content |-> r.value.val]),
                      !.runs = Append(@, RunRecord("chat", prompt, r))]

\* the condition of app.py:72-74
NeedsExtraction(s, name) ==
    \/ s.uploaded_file_name # name
    \/ ~s.extracted[name].some

\* the upload block, app.py:69-107, for the uploaded file up and temp file tmp;
\* os.remove is taken to succeed (were it to fail, app.py:91-92 only warns)
ExtractBlock(X, up, tmp, run) ==
    IF ~NeedsExtraction(X.st, up.name) THEN X
    ELSE LET r == AgentRun(run)
             prompt == <<"Please extract all text from the PDF file located at: ",
                         TempNames[tmp]>>
         IN IF r.kind = "raise"
            THEN [X EXCEPT !.disk = @ \cup {tmp},
                           !.aborted = TRUE,
                           !.runs = Append(@, RunRecord("extraction", prompt, r))]
            ELSE [X EXCEPT
                     !.disk = @ \ {tmp},
                     !.st.extracted[up.name] =
                         IF StartsWith(r.value.val, ErrorPrefix)
                         THEN Some(<<>>) ELSE Some(r.value.val),
                     !.st.uploaded_file_name = up.name,
                     !.st.summary = NoText,
                     !.st.quiz = NoText,
                     !.runs = Append(@, RunRecord("extraction", prompt, r))]

\* app.py:109
ExtractedTextForDisplay(s, name) ==
    IF s.extracted[name].some THEN s.extracted[name].text ELSE <<>>

\* app.py:112
ControlsShown(s, up) ==
    /\ up.held
    /\ ExtractedTextForDisplay(s, up.name) # <<>>
    /\ ~StartsWith(ExtractedTextForDisplay(s, up.name), ErrorPrefix)

ButtonPrompt(button, text) ==
    IF button = "summary" THEN <<"Summarize the following document: ">> \o text
    ELSE <<"Generate a quiz from the following document: ">> \o text

\* the Generate Summary and Generate Quiz handlers, app.py:119-148;
\* button is "summary", "quiz" or "none"
ButtonBlock(X, up, button, run) ==
    IF button = "none" \/ ~ControlsShown(X.st, up) THEN X
    ELSE LET text == ExtractedTextForDisplay(X.st, up.name)
             r == AgentRun(run)
             rec == RunRecord(button, ButtonPrompt(button, text), r)
         IN IF r.kind = "raise"
            THEN [X EXCEPT !.st[button] = NoText,
                           !.aborted = TRUE,
                           !.runs = Append(@, rec)]
            ELSE [X EXCEPT
                     !.st[button] =
                         IF StartsWith(r.value.val, ErrorPrefix)
                         THEN Some(ErrorPrefix \o <<": ">> \o r.value.val)
                         ELSE Some(r.value.val),
                     !.runs = Append(@, rec)]

FreeTemp == (1..MaxTemp) \ disk
NextTemp == CHOOSE i \in FreeTemp : \A j \in FreeTemp : i <= j

\* one run of the script
RunScript(event, up, prompt, chatRun, tmp, extractRun, button, buttonRun) ==
    LET X0 == [st |-> st, disk |-> disk, aborted |-> FALSE, runs |-> <<>>]
        X1 == IF event = "chat" THEN SidebarChat(X0, prompt, chatRun) ELSE X0
        X2 == IF X1.aborted \/ ~up.held THEN X1
              ELSE ExtractBlock(X1, up, tmp, extractRun)
        X3 == IF X2.aborted \/ ~up.held THEN X2
              ELSE ButtonBlock(X2, up, button, buttonRun)
    IN /\ st' = X3.st
       /\ disk' = X3.disk
       /\ uiLast' = [event |-> event, aborted |-> X3.aborted, runs |-> X3.runs]

\* the script run with the upload block for up, under every way its
\* extraction (when one is due) may go
RunScriptExtracting(event, up, prompt, chatRun, button, buttonRun) ==
    IF up.held /\ NeedsExtraction(st, up.name)
    THEN /\ FreeTemp # {}
         /\ \E i \in DOMAIN ExtractRuns(TempNames[NextTemp], up.pdf) :
               RunScript(event, up, prompt, chatRun, NextTemp,
                         ExtractRuns(TempNames[NextTemp], up.pdf)[i],
                         button, buttonRun)
    ELSE RunScript(event, up, prompt, chatRun, 1, FaultRun, button, buttonRun)

\* the user sends a chat message
Chat(prompt) ==
    /\ Len(st.messages) + 2 <= MaxHistory
    /\ \E i \in DOMAIN ChatRuns :
          RunScriptExtracting("chat", uploader, prompt, ChatRuns[i], "none", FaultRun)
    /\ UNCHANGED <<uploader, profileVars, raceVars, loopVars>>

\* the user puts a file into the uploader
Upload(name, k) ==
    /\ uploader' = [held |-> TRUE, name |-> name, pdf |-> Uploads[k]]
    /\ RunScriptExtracting("upload", uploader', <<>>, FaultRun, "none", FaultRun)
    /\ UNCHANGED <<profileVars, raceVars, loopVars>>

\* the user removes the file from the uploader
ClearUpload ==
    /\ uploader.held
    /\ uploader' = NoUpload
    /\ RunScript("clear", NoUpload, <<>>, FaultRun, 1, FaultRun, "none", FaultRun)
    /\ UNCHANGED <<profileVars, raceVars, loopVars>>

\* the user presses Generate Summary or Generate Quiz
Press(button) ==
    /\ ControlsShown(st, uploader)
    /\ ~NeedsExtraction(st, uploader.name)
    /\ \E i \in DOMAIN ButtonRuns(button, <<>>) :
          RunScript(button, uploader, <<>>, FaultRun, 1, FaultRun, button,
                    ButtonRuns(button, ExtractedTextForDisplay(st, uploader.name))[i])
    /\ UNCHANGED <<uploader, profileVars, raceVars, loopVars>>

UiIdle ==
    /\ st = SessionInit
    /\ uploader = NoUpload
    /\ disk = {}
    /\ uiLast = [event |-> "none", aborted |-> FALSE, runs |-> <<>>]

InitUI ==
    /\ file = FreshFile
    /\ lastCall = NoCall
    /\ written = [k \in Keys |-> NoValue]
    /\ RaceIdle /\ LoopIdle /\ UiIdle

NextUI ==
    \/ \E i \in DOMAIN ChatPrompts : Chat(ChatPrompts[i])
    \/ \E n \in Names, k \in DOMAIN Uploads : Upload(n, k)
    \/ ClearUpload
    \/ Press("summary")
    \/ Press("quiz")

SpecUI == InitUI /\ [][NextUI]_vars


InitLoop ==
    /\ file = FreshFile
    /\ lastCall = NoCall
    /\ written = [k \in Keys |-> NoValue]
    /\ RaceIdle /\ LoopIdle /\ UiIdle

NextLoop ==
    \/ StartTurn
    \/ \E p \in Paths : DispatchExtract(p)
    \/ \E i \in 1..Len(Responses) : DispatchSummarize(Responses[i])
    \/ \E i \in 1..Len(Responses) : DispatchQuiz(Responses[i])
    \/ DispatchReadProfile
    \/ DispatchUpdateProfile("name", "Ana")
    \/ \E i \in 1..Len(FinalOutputs) : FinishTurn(FinalOutputs[i])
    \/ FaultTurn

SpecLoop == InitLoop /\ [][NextLoop]_vars

----------------------------------------------------------------------------
(* Specifications of the profile store *)

\* single writer, the file as the program itself creates it
InitProfile ==
    /\ file = FreshFile
    /\ lastCall = NoCall
    /\ written = [k \in Keys |-> NoValue]
    /\ RaceIdle /\ LoopIdle /\ UiIdle

NextProfile ==
    \/ CallRead
    \/ \E k \in Keys, v \in Values : CallUpdate(k, v)

SpecProfile == InitProfile /\ [][NextProfile]_vars

\* contents of the file that the program did not write
ContentTruncated == <<Punct("{"), StrTok("name")>>
ContentList == <<Punct("["), Punct("]")>>
ContentScalar == <<StrTok("Ana")>>
ContentNull == <<NullTok>>
ContentNumberValue ==
    <<Punct("{"), StrTok("name"), Punct(":"), IntTok("1"), Punct("}")>>
ContentProfile ==
    <<Punct("{"), StrTok("name"), Punct(":"), StrTok("Ana"), Punct("}")>>

InitialContents ==
    <<ContentTruncated, ContentList, ContentScalar, ContentNull,
      ContentNumberValue, ContentProfile, <<>> >>

InitOps ==
    /\ \/ file = FreshFile
       \/ file = [FreshFile EXCEPT !.writable = FALSE]
       \/ \E i \in 1..Len(InitialContents), r \in BOOLEAN, w \in BOOLEAN :
             file = [exists |-> TRUE, readable |-> r, writable |-> w,
                     content |-> InitialContents[i]]
    /\ lastCall = NoCall
    /\ written = [k \in Keys |-> NoValue]
    /\ RaceIdle /\ LoopIdle /\ UiIdle

NextOps ==
    \/ CallRead
    \/ \E k \in Keys, v \in Values : CallUpdate(k, v)
    \/ \E p \in Paths : CallExtract(p)
    \/ \E i \in 1..Len(Responses) : CallSummarize(Responses[i])
    \/ \E i \in 1..Len(Responses) : CallQuiz(Responses[i])

SpecOps == InitOps /\ [][NextOps]_vars

InitRace ==
    /\ file = FreshFile
    /\ lastCall = NoCall
    /\ written = [k \in Keys |-> NoValue]
    /\ RaceIdle /\ LoopIdle /\ UiIdle

NextRace ==
    \/ \E s \in Sessions, k \in Keys, v \in Values : UpdateRead(s, k, v)
    \/ \E s \in Sessions : UpdateWrite(s)

SpecRace == InitRace /\ [][NextRace]_vars

----------------------------------------------------------------------------
(* Claims about the profile store and the operations *)

\* the value that reading the profile gives for key k, NoValue when it has none
StoredValue(f, k) ==
    LET r == ReadUserProfile(f) IN
    IF r.kind = "return" /\ r.value.ty = "dict" /\ DictHas(r.value.val, k)
    THEN LET v == DictGet(r.value.val, k) IN
         IF v.ty = "str" THEN v.val[1] ELSE "<not a str>"
    ELSE NoValue

\* the file holds a JSON object of string to string
IsProfileFile(f) ==
    /\ f.exists
    /\ JsonLoads(f.content).ok
    /\ LET v == JsonLoads(f.content).value IN
       /\ v.ty = "dict"
       /\ \A i \in 1..Len(v.val) : v.val[i][2].ty = "str"

\* C4: a call of a registered operation whose handler met a failure (no or
\* invalid PDF, a failed model call or response, an unreadable or unwritable
\* profile file) does not raise: it returns a text that starts with "Error".
C4_FailuresAbsorbed ==
    (lastCall.op # "none" /\ lastCall.failed) =>
        /\ lastCall.outcome.kind = "return"
        /\ lastCall.outcome.value.ty = "str"
        /\ StartsWith(lastCall.outcome.value.val, ErrorPrefix)

\* C5: with a single writer, reading the profile gives for every key the
\* value most recently written (none for a key never written), and an update
\* stores its own key and leaves the value of every other key as it was.
C5_ReadModifyWrite ==
    /\ \A k \in Keys : StoredValue(file, k) = written[k]
    /\ lastCall.op = "update" =>
          /\ lastCall.outcome.kind = "return"
          /\ StoredValue(file, lastCall.key) = lastCall.value
          /\ \A k \in Keys \ {lastCall.key} :
                StoredValue(file, k) = StoredValue(lastCall.before, k)

\* an update has overwritten a key that held another value, beside another key
C5_Witness ==
    /\ lastCall.op = "update"
    /\ StoredValue(lastCall.before, lastCall.key) \notin {NoValue, lastCall.value}
    /\ StoredValue(file, lastCall.key) = lastCall.value
    /\ \E k \in Keys \ {lastCall.key} : written[k] # NoValue

\* the file is missing, empty or not a JSON object of string to string
Anomalous(f) ==
    \/ ~f.exists
    \/ f.content = <<>>
    \/ f.content \in {ContentTruncated, ContentList, ContentScalar, ContentNull,
                      ContentNumberValue}

\* C6: on a missing, empty or malformed profile file (permissions in order)
\* a read returns the empty mapping, and an update returns and leaves a
\* valid profile file that holds the written key.
C6_AnomalyRecovered ==
    (Anomalous(lastCall.before) /\ lastCall.before.readable
        /\ lastCall.before.writable) =>
        /\ lastCall.op = "read" =>
              /\ lastCall.outcome.kind = "return"
              /\ lastCall.outcome.value.ty = "dict"
              /\ Len(lastCall.outcome.value.val) = 0
        /\ lastCall.op = "update" =>
              /\ lastCall.outcome.kind = "return"
              /\ IsProfileFile(file)
              /\ StoredValue(file, lastCall.key) = lastCall.value

\* the keys whose update completed in some session
DoneKeys == {k \in Keys : \E s \in Sessions : \E i \in 1..Len(done[s]) : done[s][i] = k}

\* C9: as long as no update read the file while another session was between
\* its read and its write, every key whose update completed is in the stored
\* profile; a lost update needs such an overlap (and C9_LostUpdate is
\* reachable: there is an interleaving that loses one of the two keys).
C9_SequentialKeepsBoth ==
    ~overlap => \A k \in DoneKeys : StoredValue(file, k) # NoValue

\* both sessions completed an update, on different keys, and one key is lost
C9_LostUpdate ==
    /\ \A s \in Sessions : pc[s] = "idle" /\ Len(done[s]) >= 1
    /\ done[1][1] # done[2][1]
    /\ overlap
    /\ \E k \in DoneKeys : StoredValue(file, k) = NoValue

----------------------------------------------------------------------------
(* Claims about the surfacing rule *)

\* a turn has ended and Runner.run returned
TurnCompleted == turn.state = "Idle" /\ turn.ran /\ ~turn.fault

AllOutputsText ==
    \A i \in 1..Len(turn.invocations) : turn.invocations[i].output.ty = "str"

RECURSIVE OutputsJoined(_)
\* the outputs of the invocations, each after the other, a newline between two
OutputsJoined(invs) ==
    IF Len(invs) = 1 THEN invs[1].output.val
    ELSE invs[1].output.val \o <<NL>> \o OutputsJoined(Tail(invs))

\* C1: a turn in which operations were invoked completes by returning a text,
\* whatever the operations returned, and where all their outputs are texts
\* that text is the outputs joined with a newline, in invocation order.
C1_ToolOutputSurfaced ==
    (TurnCompleted /\ Len(turn.invocations) > 0) =>
        /\ turn.result.kind = "return"
        /\ turn.result.value.ty = "str"
        /\ AllOutputsText => turn.result.value.val = OutputsJoined(turn.invocations)

\* C2: a turn in which no operation was invoked returns the reasoning
\* step's own reply, and its items hold no operation output.
C2_ConversationalReply ==
    (TurnCompleted /\ Len(turn.invocations) = 0) =>
        /\ turn.result.kind = "return"
        /\ turn.result.value.ty = "str"
        /\ turn.result.value.val = turn.final_output
        /\ \A i \in 1..Len(turn.new_items) :
              turn.new_items[i].cls # "ToolCallOutputItem"

\* a turn without invocations has returned the reply
C2_Witness ==
    /\ TurnCompleted
    /\ turn.invocations = <<>>
    /\ turn.final_output = FinalOutputs[1]
    /\ turn.result.kind = "return"
    /\ turn.result.value.ty = "str"
    /\ turn.result.value.val = FinalOutputs[1]

\* C3: a turn in which an invoked operation failed (all outputs being
\* texts) surfaces a text that starts with "Error".
C3_FailureHasErrorPrefix ==
    (TurnCompleted /\ AllOutputsText
        /\ \E i \in 1..Len(turn.invocations) : turn.invocations[i].raised) =>
        /\ turn.result.kind = "return"
        /\ turn.result.value.ty = "str"
        /\ StartsWith(turn.result.value.val, ErrorPrefix)

----------------------------------------------------------------------------
(* Claims about the Streamlit script *)

\* C7: after every run of the script no temporary PDF file is left, also
\* when the extraction returned an error text or the agent run raised.
C7_TempFileRemoved == disk = {}

RECURSIVE TwoTurnsEach(_)
\* for each agent run: the user message, then the surfaced output
TwoTurnsEach(runs) ==
    IF runs = <<>> THEN <<>>
    ELSE <<[role |-> "user", content |-> runs[1].prompt],
           [role |-> "assistant", content |-> runs[1].text]>>
         \o TwoTurnsEach(Tail(runs))

RECURSIVE ChatTurns(_)
\* for each chat run: the user message, then the surfaced output if it returned
ChatTurns(runs) ==
    IF runs = <<>> THEN <<>>
    ELSE (IF runs[1].kind # "chat" THEN <<>>
          ELSE <<[role |-> "user", content |-> runs[1].prompt]>>
               \o (IF runs[1].returned
                   THEN <<[role |-> "assistant", content |-> runs[1].text]>>
                   ELSE <<>>))
         \o ChatTurns(Tail(runs))

ExpectedText(pdf) == IF pdf.valid THEN PagesText(pdf.pages) ELSE <<>>

\* C10: while a file is uploaded (the last script run not ended by an
\* exception) the text stored for its name is the extraction result of its
\* current content, and an upload leaves summary and quiz reset to None.
C10_ExtractedTextCurrent ==
    (uploader.held /\ ~uiLast.aborted) =>
        /\ st.uploaded_file_name = uploader.name
        /\ st.extracted[uploader.name] = Some(ExpectedText(uploader.pdf))
        /\ uiLast.event = "upload" => (~st.summary.some /\ ~st.quiz.some)

====
